---- MODULE Spec2Model ----
(***************************************************************************)
(* Model of the Xiaomi Home light entity                                   *)
(* (custom_components/xiaomi_home/light.py): capability resolution in      *)
(* Light.__init__, the value conversions of the getters, and the write     *)
(* sequencing of async_turn_on / async_turn_off.                           *)
(*                                                                         *)
(* Python values are encoded with one TLA+ type per field:                 *)
(*   - an Optional pair / list is a sequence, <<>> standing for None (or   *)
(*     for an empty list: the code tests both with the same truthiness);   *)
(*   - an Optional property reference is a descriptor record, NoProp       *)
(*     standing for None;                                                  *)
(*   - a dict is the sequence of its <<key, value>> items in insertion     *)
(*     order (Python dicts iterate in insertion order);                    *)
(*   - a written value is a tagged record [kind, v].                       *)
(***************************************************************************)
EXTENDS Integers, Sequences, FiniteSets, TLC

VARIABLES
    props,      \* entity_data.props: the input sequence of descriptors
    idx,        \* position of the `for prop in entity_data.props` loop
    log,        \* messages passed to _LOGGER.error, in order
    self,       \* the Light entity's fields
    pc,         \* position of the running coroutine / constructor
    call,       \* which service call is running: "none", "turn_on", "turn_off"
    kwargs,     \* the write intent of the running async_turn_on
    writes,     \* set_property_async calls issued by the running call
    result,     \* the local `result` / the value returned
    mode_before,\* _attr_color_mode when the running call started
    tr,         \* state of the value-translation round trips
    tasks,      \* the calls in progress when calls overlap, by name
    device      \* the device as the overlapping calls' writes reach it

vars == <<props, idx, log, self, pc, call, kwargs, writes, result, mode_before, tr,
         tasks, device>>

(***************************************************************************)
(* Bounds.                                                                 *)
(***************************************************************************)
MaxProps == 3        \* longest property sequence given to the resolver
MaxEntityProps == 3  \* longest property sequence behind an entity that is written to
MaxScaleMin == 1     \* brightness scales start at 0..MaxScaleMin
MaxScaleStates == 256 \* brightness scales of 1..MaxScaleStates native values
MaxEdgeChannel == 1  \* color channels within MaxEdgeChannel of 0, of 255 and of the middle
MaxOverlapProps == 2 \* longest property sequence behind an entity whose calls overlap

(***************************************************************************)
(* Property descriptors (MIoTSpecProperty as light.py reads it).           *)
(***************************************************************************)
Prop(n, f, vr, vl) == [name |-> n, format_ |-> f, value_range |-> vr, value_list |-> vl]

NoProp == Prop("None", "None", <<>>, <<>>)

PowerBool == Prop("on", "bool", <<>>, <<>>)
PowerInt == Prop("on", "int", <<>>, <<>>)
BrightRange == Prop("brightness", "int", <<1, 100>>, <<>>)
BrightList ==
    Prop("brightness", "int", <<>>, << <<1, "Low">>, <<2, "High">>, <<1, "Dim">> >>)
BrightNone == Prop("brightness", "int", <<>>, <<>>)
CtRange == Prop("color-temperature", "int", <<2700, 6500>>, <<>>)
CtNone == Prop("color-temperature", "int", <<>>, <<>>)
Color == Prop("color", "int", <<>>, <<>>)
ModeList ==
    Prop("mode", "int", <<>>, << <<0, "Day">>, <<1, "Night">>, <<2, "Day">> >>)
ModeRange == Prop("mode", "int", <<0, 3>>, <<>>)
ModeEmptyRange == Prop("mode", "int", <<3, 3>>, <<>>)
ModeNone == Prop("mode", "int", <<>>, <<>>)
ModeRangeTens == Prop("mode", "int", <<9, 11>>, <<>>)
ModeListAndRange ==
    Prop("mode", "int", <<5, 7>>, << <<0, "Day">>, <<1, "Night">> >>)

Descriptors ==
    { PowerBool, PowerInt, BrightRange, BrightList, BrightNone, CtRange, CtNone,
      Color, ModeList, ModeRange, ModeEmptyRange, ModeNone, ModeRangeTens,
      ModeListAndRange }

RECURSIVE SeqsUpTo(_, _)
SeqsUpTo(S, n) ==
    IF n = 0 THEN { <<>> }
    ELSE LET shorter == SeqsUpTo(S, n - 1)
         IN  shorter \cup { Append(s, x) : s \in { t \in shorter : Len(t) = n - 1 }, x \in S }

(***************************************************************************)
(* Python helpers.                                                         *)
(***************************************************************************)
\* isinstance(prop.value_range, dict)
IsDict(vr) == vr # <<>>

\* isinstance(prop.value_list, list) and prop.value_list
IsNonEmptyList(vl) == vl # <<>>

\* d[k] = v on a dict kept as its item sequence: an existing key keeps its
\* position and takes the new value, a new key goes last.
DictSet(d, k, v) ==
    IF \E i \in 1..Len(d) : d[i][1] = k
    THEN [i \in 1..Len(d) |-> IF d[i][1] = k THEN <<k, v>> ELSE d[i]]
    ELSE Append(d, <<k, v>>)

\* {item['value']: item['description'] for item in prop.value_list}
RECURSIVE DictFromList(_)
DictFromList(vl) ==
    IF vl = <<>> THEN <<>>
    ELSE LET n == Len(vl)
         IN  DictSet(DictFromList(SubSeq(vl, 1, n - 1)), vl[n][1], vl[n][2])

Digit(d) == CASE d = 0 -> "0" [] d = 1 -> "1" [] d = 2 -> "2" [] d = 3 -> "3"
              [] d = 4 -> "4" [] d = 5 -> "5" [] d = 6 -> "6" [] d = 7 -> "7"
              [] d = 8 -> "8" [] d = 9 -> "9"

\* f'{value}' for an integer
RECURSIVE DecimalString(_)
DecimalString(n) ==
    IF n < 0 THEN "-" \o DecimalString(0 - n)
    ELSE IF n < 10 THEN Digit(n)
    ELSE DecimalString(n \div 10) \o Digit(n % 10)

\* Mutant of DictFromRange: the upper end of the range is included.
DictFromRangeInclusive(lo, hi) ==
    IF lo > hi THEN <<>>
    ELSE [i \in 1..(hi - lo + 1) |-> <<lo + i - 1, DecimalString(lo + i - 1)>>]

\* mode_list = {}; for value in range(min, max): mode_list[value] = f'{value}'
RECURSIVE DictFromRange(_, _)
DictFromRange(lo, hi) ==
    IF lo >= hi THEN <<>>
    ELSE DictSet(DictFromRange(lo, hi - 1), hi - 1, DecimalString(hi - 1))

\* list(self._mode_list.values())
DictValues(d) == [i \in 1..Len(d) |-> d[i][2]]

(***************************************************************************)
(* Capability resolution: Light.__init__.                                  *)
(***************************************************************************)
\* The fields as __init__ sets them before its loop.
NewLight ==
    [ attr_color_mode |-> "None",
      attr_supported_color_modes |-> {},
      attr_supported_features |-> {},
      attr_effect_list |-> <<>>,
      attr_min_color_temp_kelvin |-> <<>>,
      attr_max_color_temp_kelvin |-> <<>>,
      prop_on |-> NoProp,
      prop_brightness |-> NoProp,
      prop_color_temp |-> NoProp,
      prop_color |-> NoProp,
      prop_mode |-> NoProp,
      brightness_scale |-> <<>>,
      mode_list |-> <<>> ]

\* A branch of the loop body yields the entity and the message it logged
\* ("" when it logged nothing).
Outcome(e, msg) == [e |-> e, err |-> msg]

\* if prop.name == 'on'
OnBranch(e, prop) == Outcome([e EXCEPT !.prop_on = prop], "")

\* if prop.name == 'brightness'
BrightnessBranch(e, prop) ==
    IF IsDict(prop.value_range)
    THEN Outcome([e EXCEPT !.brightness_scale =
                               <<prop.value_range[1], prop.value_range[2]>>,
                           !.prop_brightness = prop], "")
    ELSE IF e.mode_list = <<>> /\ IsNonEmptyList(prop.value_list)
    THEN LET ml == DictFromList(prop.value_list)
         IN  Outcome([e EXCEPT !.mode_list = ml,
                               !.attr_effect_list = DictValues(ml),
                               !.attr_supported_features = @ \cup {"EFFECT"},
                               !.prop_mode = prop], "")
    ELSE Outcome(e, "invalid brightness format")

\* Mutant of ColorTempBranch: the missing value range is logged but the
\* branch goes on (no `continue`) and registers the property all the same.
ColorTempBranchNoContinue(e, prop) ==
    Outcome([e EXCEPT !.attr_supported_color_modes = @ \cup {"color_temp"},
                      !.attr_color_mode = "color_temp",
                      !.prop_color_temp = prop],
            IF IsDict(prop.value_range) THEN ""
            ELSE "invalid color-temperature value_range format")

\* if prop.name == 'color-temperature'
ColorTempBranch(e, prop) ==
    IF ~IsDict(prop.value_range)
    THEN Outcome(e, "invalid color-temperature value_range format")
    ELSE Outcome([e EXCEPT !.attr_min_color_temp_kelvin = <<prop.value_range[1]>>,
                           !.attr_max_color_temp_kelvin = <<prop.value_range[2]>>,
                           !.attr_supported_color_modes = @ \cup {"color_temp"},
                           !.attr_color_mode = "color_temp",
                           !.prop_color_temp = prop], "")

\* if prop.name == 'color'
ColorBranch(e, prop) ==
    Outcome([e EXCEPT !.attr_supported_color_modes = @ \cup {"rgb"},
                      !.attr_color_mode = "rgb",
                      !.prop_color = prop], "")

\* The local mode_list of the mode branch (<<>>: None or an empty dict, both falsy).
ModeTableOf(prop) ==
    IF IsNonEmptyList(prop.value_list) THEN DictFromList(prop.value_list)
    ELSE IF IsDict(prop.value_range)
    THEN DictFromRange(prop.value_range[1], prop.value_range[2])
    ELSE <<>>

\* Mutant of ModeBranch: an existing table is kept (first writer wins).
ModeBranchFirstWins(e, prop) ==
    LET ml == ModeTableOf(prop)
    IN  IF ml # <<>> /\ e.mode_list = <<>>
        THEN Outcome([e EXCEPT !.mode_list = ml,
                               !.attr_effect_list = DictValues(ml),
                               !.attr_supported_features = @ \cup {"EFFECT"},
                               !.prop_mode = prop], "")
        ELSE IF ml # <<>>
        THEN Outcome([e EXCEPT !.attr_supported_features = @ \cup {"EFFECT"}], "")
        ELSE Outcome(e, "invalid mode format")

\* if prop.name == 'mode'
ModeBranch(e, prop) ==
    LET ml == ModeTableOf(prop)
    IN  IF ml # <<>>
        THEN Outcome([e EXCEPT !.mode_list = ml,
                               !.attr_effect_list = DictValues(ml),
                               !.attr_supported_features = @ \cup {"EFFECT"},
                               !.prop_mode = prop], "")
        ELSE Outcome(e, "invalid mode format")

\* One iteration of `for prop in entity_data.props`.
ResolveProp(e, prop) ==
    IF prop.name = "on" THEN OnBranch(e, prop)
    ELSE IF prop.name = "brightness" THEN BrightnessBranch(e, prop)
    ELSE IF prop.name = "color-temperature" THEN ColorTempBranch(e, prop)
    ELSE IF prop.name = "color" THEN ColorBranch(e, prop)
    ELSE IF prop.name = "mode" THEN ModeBranch(e, prop)
    ELSE Outcome(e, "")

\* Mutant of Fallback: on/off is preferred to brightness.
FallbackOnOffFirst(e) ==
    IF e.attr_supported_color_modes # {} THEN e
    ELSE IF e.prop_on # NoProp
    THEN [e EXCEPT !.attr_supported_color_modes = @ \cup {"onoff"},
                   !.attr_color_mode = "onoff"]
    ELSE IF e.prop_brightness # NoProp
    THEN [e EXCEPT !.attr_supported_color_modes = @ \cup {"brightness"},
                   !.attr_color_mode = "brightness"]
    ELSE e

\* The fallback after the loop.
Fallback(e) ==
    IF e.attr_supported_color_modes # {} THEN e
    ELSE IF e.prop_brightness # NoProp
    THEN [e EXCEPT !.attr_supported_color_modes = @ \cup {"brightness"},
                   !.attr_color_mode = "brightness"]
    ELSE IF e.prop_on # NoProp
    THEN [e EXCEPT !.attr_supported_color_modes = @ \cup {"onoff"},
                   !.attr_color_mode = "onoff"]
    ELSE e

AddLog(l, msg) == IF msg = "" THEN l ELSE Append(l, msg)

\* The whole loop over a property sequence, from entity e and log l.
RECURSIVE ResolveLoop(_, _, _)
ResolveLoop(e, l, ps) ==
    IF ps = <<>> THEN [e |-> e, log |-> l]
    ELSE LET r == ResolveProp(e, Head(ps))
         IN  ResolveLoop(r.e, AddLog(l, r.err), Tail(ps))

\* The entity Light(entity_data) constructs.
Construct(ps) == Fallback(ResolveLoop(NewLight, <<>>, ps).e)

\* A call that is not running.
IdleTask == [pc |-> "idle", kwargs |-> [brightness |-> <<>>, color_temp_kelvin |-> <<>>,
                                        rgb_color |-> <<>>, effect |-> <<>>],
             result |-> FALSE, awaiting |-> FALSE]

\* No write has reached the device.
NoWrite == [step |-> "none", power_before |-> "none"]

\* No overlapping calls are running and nothing was written.
NoOverlap ==
    /\ tasks = [t \in {"turn_on", "turn_off"} |-> IdleTask]
    /\ device = [last_power |-> "none", last_write |-> NoWrite]

\* The translation round trips are not running.
TrIdle == [pc |-> "off"]

NoKwargs == [brightness |-> <<>>, color_temp_kelvin |-> <<>>, rgb_color |-> <<>>, effect |-> <<>>]

NoCall ==
    /\ pc = "idle" /\ call = "none" /\ kwargs = NoKwargs
    /\ writes = <<>> /\ result = FALSE /\ mode_before = "None"

InitResolve ==
    /\ NoOverlap
    /\ props \in SeqsUpTo(Descriptors, MaxProps)
    /\ idx = 1
    /\ log = <<>>
    /\ self = NewLight
    /\ pc = "init"
    /\ call = "none" /\ kwargs = NoKwargs /\ writes = <<>> /\ result = FALSE
    /\ mode_before = "None"
    /\ tr = TrIdle

\* One pass of the loop body.
ResolveStep ==
    /\ pc = "init"
    /\ idx <= Len(props)
    /\ LET r == ResolveProp(self, props[idx])
       IN  /\ self' = r.e
           /\ log' = AddLog(log, r.err)
    /\ idx' = idx + 1
    /\ UNCHANGED <<props, pc, call, kwargs, writes, result, mode_before, tr, tasks, device>>

\* The loop is exhausted: the fallback runs and the constructor returns.
ResolveFinish ==
    /\ pc = "init"
    /\ idx > Len(props)
    /\ self' = Fallback(self)
    /\ pc' = "idle"
    /\ UNCHANGED <<props, idx, log, call, kwargs, writes, result, mode_before, tr, tasks, device>>

NextResolve == ResolveStep \/ ResolveFinish

SpecResolve == InitResolve /\ [][NextResolve]_vars

(***************************************************************************)
(* Claims about capability resolution (checked under SpecResolve).         *)
(***************************************************************************)
Resolved == pc = "idle"

\* Positions of the input whose property would yield a mode table.
IsBrightnessTable(p) ==
    p.name = "brightness" /\ ~IsDict(p.value_range) /\ IsNonEmptyList(p.value_list)
IsModeTable(p) == p.name = "mode" /\ ModeTableOf(p) # <<>>
BrightnessTablePositions == { i \in 1..Len(props) : IsBrightnessTable(props[i]) }
ModeTablePositions == { i \in 1..Len(props) : IsModeTable(props[i]) }
TablePositions == BrightnessTablePositions \cup ModeTablePositions
Min(S) == CHOOSE x \in S : \A y \in S : x <= y
Max(S) == CHOOSE x \in S : \A y \in S : x >= y
TableOf(p) == IF p.name = "mode" THEN ModeTableOf(p) ELSE DictFromList(p.value_list)

\* C3 as stated: between a brightness-derived and a mode-derived table the
\* first one in input order wins, so after resolution the mode table and the
\* property effect writes target are those of the first table-yielding
\* brightness or mode property.
C3_FirstTableWins ==
    (Resolved /\ BrightnessTablePositions # {} /\ ModeTablePositions # {})
        => LET first == props[Min(TablePositions)]
           IN  self.prop_mode = first /\ self.mode_list = TableOf(first)

\* C3 amended: a mode property that yields entries always overwrites the
\* table (a brightness value list is the only no-op on an existing table), so
\* after resolution the table and the effect target are those of the last
\* mode property yielding entries, and only when there is none those of the
\* first range-less brightness property with a non-empty value list.
C3_ModeTableWins ==
    Resolved =>
        IF ModeTablePositions # {}
        THEN LET last == props[Max(ModeTablePositions)]
             IN  self.prop_mode = last /\ self.mode_list = ModeTableOf(last)
        ELSE IF BrightnessTablePositions # {}
        THEN LET first == props[Min(BrightnessTablePositions)]
             IN  /\ self.prop_mode = first
                 /\ self.mode_list = DictFromList(first.value_list)
        ELSE self.prop_mode = NoProp /\ self.mode_list = <<>>

\* A brightness value list came first, a mode property with entries later,
\* and effect writes target the mode property.
C3_Witness ==
    /\ Resolved
    /\ \E i \in BrightnessTablePositions : \E j \in ModeTablePositions :
           i < j /\ i = Min(TablePositions) /\ self.prop_mode = props[j]

\* The malformed properties C4 names.
MalformedColorTemp(p) == p.name = "color-temperature" /\ ~IsDict(p.value_range)
MalformedBrightness(p) ==
    p.name = "brightness" /\ ~IsDict(p.value_range) /\ ~IsNonEmptyList(p.value_list)
MalformedMode(p) == p.name = "mode" /\ ModeTableOf(p) = <<>>
Malformed(p) == MalformedColorTemp(p) \/ MalformedBrightness(p) \/ MalformedMode(p)
WellFormed(p) == ~Malformed(p)
Scanned == SubSeq(props, 1, idx - 1)
CountLog(msg) == Cardinality({ i \in 1..Len(log) : log[i] = msg })
CountScanned(Test(_)) == Cardinality({ i \in 1..Len(Scanned) : Test(Scanned[i]) })
RangelessBrightness(p) == p.name = "brightness" /\ ~IsDict(p.value_range)

\* C4: resolution never raises or aborts on a malformed property. At every
\* point of the scan the entity is the one the well-formed properties scanned
\* so far produce on their own (a malformed property changes nothing and the
\* properties around it are processed), each color-temperature property
\* without a value range and each mode property without entries is logged
\* exactly once, each brightness property with neither range nor list is
\* logged, and the scan ends having visited every property.
C4_MalformedSkipped ==
    /\ pc \in {"init", "idle"}
    /\ LET e == ResolveLoop(NewLight, <<>>, SelectSeq(Scanned, WellFormed)).e
       IN  self = IF Resolved THEN Fallback(e) ELSE e
    /\ CountLog("invalid color-temperature value_range format")
           = CountScanned(MalformedColorTemp)
    /\ CountLog("invalid mode format") = CountScanned(MalformedMode)
    /\ CountLog("invalid brightness format") >= CountScanned(MalformedBrightness)
    /\ CountLog("invalid brightness format") <= CountScanned(RangelessBrightness)
    /\ Resolved => idx = Len(props) + 1
    /\ \A i \in 1..Len(Scanned) :
           MalformedColorTemp(Scanned[i]) => self.prop_color_temp # Scanned[i]

\* A color-temperature property without a value range was logged once and a
\* well-formed one after it was still registered.
C4_Witness ==
    /\ Resolved
    /\ \E i, j \in 1..Len(props) :
           /\ i < j
           /\ MalformedColorTemp(props[i])
           /\ props[j].name = "color-temperature" /\ self.prop_color_temp = props[j]
    /\ CountLog("invalid color-temperature value_range format") = 1
    /\ "color_temp" \in self.attr_supported_color_modes

\* The entries a table holds, as a set of <<value, description>> pairs.
Entries(table) == { table[i] : i \in 1..Len(table) }
Keys(table) == { table[i][1] : i \in 1..Len(table) }

\* What C11 says the scan of the mode property p does to the entity.
ModeStepAsClaimed(p, before, after, logBefore, logAfter) ==
    IF p.value_list # <<>>
    THEN \* value -> description (of the last item carrying the value)
         /\ Keys(after.mode_list) = { p.value_list[i][1] : i \in 1..Len(p.value_list) }
         /\ Len(after.mode_list) = Cardinality(Keys(after.mode_list))
         /\ \A i \in 1..Len(p.value_list) :
                (\A j \in (i + 1)..Len(p.value_list) :
                     p.value_list[j][1] # p.value_list[i][1])
                    => p.value_list[i] \in Entries(after.mode_list)
         /\ after.prop_mode = p
         /\ "EFFECT" \in after.attr_supported_features
         /\ logAfter = logBefore
    ELSE IF p.value_range # <<>> /\ p.value_range[1] < p.value_range[2]
    THEN \* every v with min <= v < max, to its decimal string
         /\ Entries(after.mode_list) =
                { <<v, ToString(v)>> : v \in p.value_range[1]..(p.value_range[2] - 1) }
         /\ Len(after.mode_list) = p.value_range[2] - p.value_range[1]
         /\ after.prop_mode = p
         /\ "EFFECT" \in after.attr_supported_features
         /\ logAfter = logBefore
    ELSE \* nothing to build a table from: logged and ignored
         /\ after = before
         /\ logAfter = Append(logBefore, "invalid mode format")

\* C11: scanning a mode property builds the mode table from its value list
\* when that is present and non-empty (value -> description), otherwise from
\* its value range as the table of every integer v with min <= v < max mapped
\* to its decimal string; when neither yields an entry (also when
\* min >= max) the property is logged and ignored, leaving mode table and
\* effect capability as they were.
C11_ModeTableBuilt ==
    [][ (pc = "init" /\ idx <= Len(props) /\ props[idx].name = "mode" /\ idx' = idx + 1)
            => ModeStepAsClaimed(props[idx], self, self', log, log') ]_vars

\* A mode property with value range <<9, 11>> was just scanned and the table
\* maps 9 and 10, not 11, to "9" and "10".
C11_Witness ==
    /\ idx > 1 /\ props[idx - 1] = ModeRangeTens
    /\ self.prop_mode = ModeRangeTens
    /\ self.mode_list = << <<9, "9">>, <<10, "10">> >>
    /\ "EFFECT" \in self.attr_supported_features

ColorTempPositions ==
    { i \in 1..Len(props) :
        props[i].name = "color-temperature" /\ IsDict(props[i].value_range) }
ColorPositions == { i \in 1..Len(props) : props[i].name = "color" }
BrightnessRangeSeen ==
    \E i \in 1..Len(props) : props[i].name = "brightness" /\ IsDict(props[i].value_range)
PowerSeen == \E i \in 1..Len(props) : props[i].name = "on"

\* C5: after resolution the supported color modes hold color-temp iff a
\* color-temperature property with a value range was seen and rgb iff a color
\* property was seen, and the active mode is that of the last of them; with
\* neither, set and active mode are brightness-only when a brightness range
\* was seen, else on/off-only when a power property was seen, else empty and
\* absent.
C5_ColorModes ==
    Resolved =>
        IF ColorTempPositions \cup ColorPositions # {}
        THEN /\ self.attr_supported_color_modes =
                    (IF ColorTempPositions # {} THEN {"color_temp"} ELSE {})
                    \cup (IF ColorPositions # {} THEN {"rgb"} ELSE {})
             /\ self.attr_color_mode =
                    IF Max(ColorTempPositions \cup ColorPositions) \in ColorPositions
                    THEN "rgb" ELSE "color_temp"
        ELSE IF BrightnessRangeSeen
        THEN /\ self.attr_supported_color_modes = {"brightness"}
             /\ self.attr_color_mode = "brightness"
        ELSE IF PowerSeen
        THEN /\ self.attr_supported_color_modes = {"onoff"}
             /\ self.attr_color_mode = "onoff"
        ELSE /\ self.attr_supported_color_modes = {}
             /\ self.attr_color_mode = "None"

\* A power property and a brightness range, no color property: brightness-only.
C5_Witness ==
    /\ Resolved
    /\ PowerSeen /\ BrightnessRangeSeen
    /\ ColorTempPositions \cup ColorPositions = {}
    /\ self.attr_color_mode = "brightness"

(***************************************************************************)
(* Value translation.                                                      *)
(***************************************************************************)
\* A value handed to set_property_async: True/False (kind "bool", v 1/0), an
\* int, None, or the float num/den that brightness_to_value returns (kept as
\* an exact fraction).
Val(k, num, den) == [kind |-> k, v |-> num, den |-> den]
BoolVal(b) == Val("bool", IF b THEN 1 ELSE 0, 1)
IntVal(n) == Val("int", n, 1)
NoneVal == Val("None", 0, 1)

\* Python's round(): to the nearest integer, a tie to the even one.
PyRound(num, den) ==
    LET q == num \div den
        r == num % den
    IN  IF 2 * r < den THEN q
        ELSE IF 2 * r > den THEN q + 1
        ELSE IF q % 2 = 0 THEN q ELSE q + 1

\* homeassistant.util.scaling.states_in_range
StatesInRange(scale) == scale[2] - scale[1] + 1

\* Mutant of ValueToBrightness: the offset of the scale's lower end is dropped.
ValueToBrightnessNoOffset(scale, value) ==
    LET b == PyRound(value * 255, StatesInRange(scale))
        lo == IF b < 1 THEN 1 ELSE b
    IN  IF lo > 255 THEN 255 ELSE lo

\* The brightness getter: value_to_brightness(self._brightness_scale, value)
\* = min(255, max(1, round(scale_to_ranged_value(scale, (1, 255), value)))),
\* scale_to_ranged_value being (value - (min - 1)) * 255 / states + 0.
ValueToBrightness(scale, value) ==
    LET b == PyRound((value - (scale[1] - 1)) * 255, StatesInRange(scale))
        lo == IF b < 1 THEN 1 ELSE b
    IN  IF lo > 255 THEN 255 ELSE lo

\* The brightness step of async_turn_on:
\* brightness_to_value(self._brightness_scale, brightness)
\* = scale_to_ranged_value((1, 255), scale, brightness)
\* = brightness * states / 255 + (min - 1), a float, written unrounded.
BrightnessToValue(scale, brightness) ==
    Val("float", brightness * StatesInRange(scale) + 255 * (scale[1] - 1), 255)

RECURSIVE Pow2(_)
Pow2(n) == IF n = 0 THEN 1 ELSE 2 * Pow2(n - 1)

\* x << n and x >> n on non-negative Python ints
ShiftLeft(x, n) == x * Pow2(n)
ShiftRight(x, n) == x \div Pow2(n)

\* x | y and x & y on non-negative Python ints, bit by bit
RECURSIVE BitOr(_, _)
BitOr(x, y) ==
    IF x = 0 THEN y
    ELSE IF y = 0 THEN x
    ELSE 2 * BitOr(x \div 2, y \div 2) + (IF x % 2 = 1 \/ y % 2 = 1 THEN 1 ELSE 0)
RECURSIVE BitAnd(_, _)
BitAnd(x, y) ==
    IF x = 0 \/ y = 0 THEN 0
    ELSE 2 * BitAnd(x \div 2, y \div 2) + (IF x % 2 = 1 /\ y % 2 = 1 THEN 1 ELSE 0)

\* Mutant of PackRGB: green is shifted like red.
PackRGBGreenShift16(t) == BitOr(BitOr(ShiftLeft(t[1], 16), ShiftLeft(t[2], 16)), t[3])

\* The rgb step of async_turn_on: rgb = (r << 16) | (g << 8) | b
PackRGB(t) == BitOr(BitOr(ShiftLeft(t[1], 16), ShiftLeft(t[2], 8)), t[3])

\* The rgb_color getter: (rgb >> 16) & 0xFF, (rgb >> 8) & 0xFF, rgb & 0xFF
UnpackRGB(rgb) ==
    << BitAnd(ShiftRight(rgb, 16), 255), BitAnd(ShiftRight(rgb, 8), 255), BitAnd(rgb, 255) >>

\* Light.__get_mode_value: None without a table, else the key of the first
\* item (in iteration order) whose value is the description, else None.
GetModeValue(mode_list, description) ==
    LET hits == { i \in 1..Len(mode_list) : mode_list[i][2] = description }
    IN  IF mode_list = <<>> \/ hits = {} THEN NoneVal
        ELSE IntVal(mode_list[CHOOSE i \in hits : \A j \in hits : i <= j][1])

(***************************************************************************)
(* The write coordinator: async_turn_on and async_turn_off.                *)
(*                                                                         *)
(* pc is the statement the running coroutine is at: "on", "brightness",    *)
(* "color_temp", "rgb", "effect" (the five set_property_async calls of     *)
(* async_turn_on), "off" (the one of async_turn_off), "return" (it         *)
(* returned) or "raised" (it ended with an exception). A call that has     *)
(* been issued and not yet completed is the last entry of writes, with     *)
(* status "pending": the coroutine is suspended in its await.              *)
(***************************************************************************)
Intents ==
    [ brightness : { <<>>, <<128>> },
      color_temp_kelvin : { <<>>, <<3000>> },
      rgb_color : { <<>>, << <<255, 128, 1>> >> },
      effect : { <<>>, <<"Day">>, <<"Unknown">> } ]

\* ATTR_... in kwargs, for the step that handles the attribute
Named(kw, step) ==
    CASE step = "brightness" -> kw.brightness # <<>>
      [] step = "color_temp" -> kw.color_temp_kelvin # <<>>
      [] step = "rgb" -> kw.rgb_color # <<>>
      [] step = "effect" -> kw.effect # <<>>
      [] OTHER -> FALSE

StepOrder == <<"on", "brightness", "color_temp", "rgb", "effect">>
StepRank(step) == CHOOSE i \in 1..Len(StepOrder) : StepOrder[i] = step

\* Where control goes after the statement `step`: the next `if ATTR in
\* kwargs` that holds, or the return.
NextStep(kw, step) ==
    LET later == { i \in 1..Len(StepOrder) : i > StepRank(step) /\ Named(kw, StepOrder[i]) }
    IN  IF later = {} THEN "return" ELSE StepOrder[Min(later)]

\* Mutant of PowerOnValue: always the boolean.
PowerOnValueBool(prop) == BoolVal(TRUE)

\* value_on = True if self._prop_on.format_ == 'bool' else 1
PowerOnValue(prop) == IF prop.format_ = "bool" THEN BoolVal(TRUE) ELSE IntVal(1)

\* value_on = False if self._prop_on.format_ == 'bool' else 0
PowerOffValue(prop) == IF prop.format_ = "bool" THEN BoolVal(FALSE) ELSE IntVal(0)

\* Whether evaluating the arguments of the step's set_property_async raises:
\* self._prop_on.format_ with _prop_on None (AttributeError), and
\* brightness_to_value subscripting a None _brightness_scale (TypeError).
Raises(e, step) ==
    \/ step \in {"on", "off"} /\ e.prop_on = NoProp
    \/ step = "brightness" /\ e.brightness_scale = <<>>

\* The property and the value of the step's set_property_async call.
WriteOf(e, kw, step) ==
    CASE step = "on" -> [prop |-> e.prop_on, value |-> PowerOnValue(e.prop_on)]
      [] step = "off" -> [prop |-> e.prop_on, value |-> PowerOffValue(e.prop_on)]
      [] step = "brightness" ->
            [prop |-> e.prop_brightness,
             value |-> BrightnessToValue(e.brightness_scale, kw.brightness[1])]
      [] step = "color_temp" ->
            [prop |-> e.prop_color_temp, value |-> IntVal(kw.color_temp_kelvin[1])]
      [] step = "rgb" -> [prop |-> e.prop_color, value |-> IntVal(PackRGB(kw.rgb_color[1]))]
      [] step = "effect" ->
            [prop |-> e.prop_mode, value |-> GetModeValue(e.mode_list, kw.effect[1])]

\* Mutant of ResultOf: the outcome is and-ed into result (result &= await ...).
ResultAnd(prev, ok) == prev /\ ok

\* result = await self.set_property_async(...): the outcome replaces result.
ResultOf(prev, ok) == ok

\* Mutant of ColorModeAfter: the mode follows only a successful write.
ColorModeAfterIfOk(step, ok, mode) ==
    IF ~ok THEN mode
    ELSE IF step = "color_temp" THEN "color_temp"
    ELSE IF step = "rgb" THEN "rgb"
    ELSE mode

\* self._attr_color_mode = ... after the awaited color-temperature and rgb
\* writes, whatever they returned.
ColorModeAfter(step, ok, mode) ==
    IF step = "color_temp" THEN "color_temp"
    ELSE IF step = "rgb" THEN "rgb"
    ELSE mode

Awaiting == writes # <<>> /\ writes[Len(writes)].status = "pending"

Init ==
    /\ NoOverlap
    /\ props = <<>>
    /\ idx = 1
    /\ log = <<>>
    /\ self \in { Construct(ps) : ps \in SeqsUpTo(Descriptors, MaxEntityProps) }
    /\ NoCall
    /\ tr = TrIdle

\* The platform calls async_turn_on(**kw).
TurnOnCall(kw) ==
    /\ pc = "idle"
    /\ call' = "turn_on"
    /\ kwargs' = kw
    /\ result' = FALSE
    /\ writes' = <<>>
    /\ mode_before' = self.attr_color_mode
    /\ pc' = "on"
    /\ UNCHANGED <<props, idx, log, self, tr, tasks, device>>

\* The platform calls async_turn_off().
TurnOffCall ==
    /\ pc = "idle"
    /\ call' = "turn_off"
    /\ kwargs' = NoKwargs
    /\ result' = FALSE
    /\ writes' = <<>>
    /\ mode_before' = self.attr_color_mode
    /\ pc' = "off"
    /\ UNCHANGED <<props, idx, log, self, tr, tasks, device>>

\* The coroutine reaches a set_property_async call: evaluating its arguments
\* raises, or the call is issued and the coroutine awaits it.
IssueWrite ==
    /\ pc \in {"on", "brightness", "color_temp", "rgb", "effect", "off"}
    /\ ~Awaiting
    /\ IF Raises(self, pc)
       THEN /\ pc' = "raised"
            /\ UNCHANGED writes
       ELSE /\ writes' = Append(writes, [step |-> pc, status |-> "pending"] @@ WriteOf(self, kwargs, pc))
            /\ UNCHANGED pc
    /\ UNCHANGED <<props, idx, log, self, call, kwargs, result, mode_before, tr, tasks, device>>

\* The awaited set_property_async completes with outcome ok; the coroutine
\* resumes, assigns result (and the color mode) and runs to its next call
\* or to its return.
CompleteWrite(ok) ==
    /\ Awaiting
    /\ writes' = [writes EXCEPT ![Len(writes)].status = IF ok THEN "ok" ELSE "failed"]
    /\ result' = ResultOf(result, ok)
    /\ self' = [self EXCEPT !.attr_color_mode = ColorModeAfter(pc, ok, @)]
    /\ pc' = IF pc = "off" THEN "return" ELSE NextStep(kwargs, pc)
    /\ UNCHANGED <<props, idx, log, call, kwargs, mode_before, tr, tasks, device>>

\* The call is over (returned or raised); the entity is idle again.
EndCall ==
    /\ pc \in {"return", "raised"}
    /\ pc' = "idle"
    /\ call' = "none"
    /\ kwargs' = NoKwargs
    /\ writes' = <<>>
    /\ result' = FALSE
    /\ mode_before' = "None"
    /\ UNCHANGED <<props, idx, log, self, tr, tasks, device>>

Next ==
    \/ \E kw \in Intents : TurnOnCall(kw)
    \/ TurnOffCall
    \/ IssueWrite
    \/ \E ok \in BOOLEAN : CompleteWrite(ok)
    \/ EndCall

Spec == Init /\ [][Next]_vars

(***************************************************************************)
(* Claims about the write coordinator (checked under Spec).                *)
(***************************************************************************)
CallOver == pc \in {"return", "raised"}
StepsWritten == { writes[i].step : i \in 1..Len(writes) }
NamedSteps(kw) == { StepOrder[i] : i \in { j \in 1..Len(StepOrder) : Named(kw, StepOrder[j]) } }
WritesOf(step) == { i \in 1..Len(writes) : writes[i].step = step }

\* C1 as stated: for an entity with a power property and any intent,
\* async_turn_on has at most one write in flight (the last issued), issues
\* its writes in the order power-on, brightness, color temperature, RGB,
\* effect, the power-on write first, writes nothing the intent does not
\* name, and when the call is over has written power-on and every named
\* attribute exactly once, whichever writes failed.
C1_SequentialOrderedWrites ==
    (call = "turn_on" /\ self.prop_on # NoProp) =>
        /\ \A i \in 1..Len(writes) - 1 : writes[i].status # "pending"
        /\ \A i, j \in 1..Len(writes) :
               i < j => StepRank(writes[i].step) < StepRank(writes[j].step)
        /\ writes # <<>> => writes[1].step = "on"
        /\ StepsWritten \subseteq {"on"} \cup NamedSteps(kwargs)
        /\ CallOver =>
               /\ StepsWritten = {"on"} \cup NamedSteps(kwargs)
               /\ \A st \in StepsWritten : Cardinality(WritesOf(st)) = 1

\* What does hold of C1's statement: the same, for the calls that return.
C1_WritesOnReturn ==
    (call = "turn_on" /\ self.prop_on # NoProp) =>
        /\ \A i \in 1..Len(writes) - 1 : writes[i].status # "pending"
        /\ \A i, j \in 1..Len(writes) :
               i < j => StepRank(writes[i].step) < StepRank(writes[j].step)
        /\ writes # <<>> => writes[1].step = "on"
        /\ StepsWritten \subseteq {"on"} \cup NamedSteps(kwargs)
        /\ pc = "return" =>
               /\ StepsWritten = {"on"} \cup NamedSteps(kwargs)
               /\ \A st \in StepsWritten : Cardinality(WritesOf(st)) = 1

\* C2: the value async_turn_on returns is the outcome of the last write it
\* issued, whatever the outcomes of the earlier ones.
C2_ResultIsLastOutcome ==
    (call = "turn_on" /\ pc = "return") =>
        /\ writes # <<>>
        /\ result = (writes[Len(writes)].status = "ok")

\* async_turn_on returned success although its power-on write failed.
C2_Witness ==
    /\ call = "turn_on" /\ pc = "return"
    /\ Len(writes) >= 2
    /\ writes[1].status = "failed"
    /\ writes[Len(writes)].status = "ok"
    /\ result = TRUE

\* C6: every power write goes to the power property and keeps its
\* representation family: async_turn_on writes True for format bool and 1 for
\* an integer format, async_turn_off writes False resp. 0, and async_turn_off
\* on an entity with a power property issues exactly one write, the power one.
C6_PowerRepresentation ==
    /\ \A i \in 1..Len(writes) :
           /\ writes[i].step = "on" =>
                  /\ writes[i].prop = self.prop_on
                  /\ writes[i].value =
                         IF self.prop_on.format_ = "bool"
                         THEN Val("bool", 1, 1) ELSE Val("int", 1, 1)
           /\ writes[i].step = "off" =>
                  /\ writes[i].prop = self.prop_on
                  /\ writes[i].value =
                         IF self.prop_on.format_ = "bool"
                         THEN Val("bool", 0, 1) ELSE Val("int", 0, 1)
    /\ call = "turn_off" => StepsWritten \subseteq {"off"} /\ Len(writes) <= 1
    /\ (call = "turn_off" /\ self.prop_on # NoProp /\ CallOver) => Len(writes) = 1

\* async_turn_off on an integer-format power property wrote 0, once.
C6_Witness ==
    /\ call = "turn_off" /\ pc = "return"
    /\ self.prop_on.format_ = "int"
    /\ Len(writes) = 1
    /\ writes[1].value = Val("int", 0, 1)

\* The key of the first item of the table, in iteration order, whose
\* description is d; None when there is none.
FirstMatch(table, d) ==
    IF \E i \in 1..Len(table) : table[i][2] = d
    THEN LET i == Min({ j \in 1..Len(table) : table[j][2] = d })
         IN  Val("int", table[i][1], 1)
    ELSE Val("None", 0, 1)

\* C9 as stated: whenever the intent names an effect, async_turn_on issues
\* exactly one write to the mode property, carrying the value of the first
\* table entry with that description, or None when no entry matches or no
\* table exists.
C9_EffectAlwaysWritten ==
    (call = "turn_on" /\ kwargs.effect # <<>> /\ CallOver) =>
        /\ Cardinality(WritesOf("effect")) = 1
        /\ \A i \in WritesOf("effect") :
               /\ writes[i].prop = self.prop_mode
               /\ writes[i].value = FirstMatch(self.mode_list, kwargs.effect[1])

\* What does hold of C9's statement: the same, for the calls that return.
C9_EffectWrittenOnReturn ==
    (call = "turn_on" /\ kwargs.effect # <<>> /\ pc = "return") =>
        /\ Cardinality(WritesOf("effect")) = 1
        /\ \A i \in WritesOf("effect") :
               /\ writes[i].prop = self.prop_mode
               /\ writes[i].value = FirstMatch(self.mode_list, kwargs.effect[1])

\* C10: when async_turn_on returns, the active color mode is rgb if the
\* intent named an RGB triple, else color-temp if it named a color
\* temperature, else what it was before the call, whether the writes
\* succeeded or failed; async_turn_off leaves the active color mode alone.
C10_ColorModeAfterCall ==
    /\ (call = "turn_on" /\ pc = "return") =>
           self.attr_color_mode =
               IF kwargs.rgb_color # <<>> THEN "rgb"
               ELSE IF kwargs.color_temp_kelvin # <<>> THEN "color_temp"
               ELSE mode_before
    /\ call = "turn_off" => self.attr_color_mode = mode_before

\* A failed color-temperature write still switched the mode from rgb.
C10_Witness ==
    /\ call = "turn_on" /\ pc = "return"
    /\ kwargs.color_temp_kelvin # <<>> /\ kwargs.rgb_color = <<>>
    /\ mode_before = "rgb"
    /\ self.prop_color_temp # NoProp
    /\ \E i \in WritesOf("color_temp") : writes[i].status = "failed"
    /\ self.attr_color_mode = "color_temp"

\* C12: in every state of an entity, after resolution and after any calls of
\* async_turn_on and async_turn_off with any intents, the active color mode
\* is absent or one of the supported color modes set at resolution.
C12_ActiveModeSupported ==
    self.attr_color_mode = "None"
        \/ self.attr_color_mode \in self.attr_supported_color_modes

\* What does hold of C12's statement: the entity as constructed, before any
\* call changed it, has an absent or a supported active color mode.
C12_ConstructedModeSupported ==
    \A ps \in SeqsUpTo(Descriptors, MaxEntityProps) :
        LET e == Construct(ps)
        IN  e.attr_color_mode = "None"
                \/ e.attr_color_mode \in e.attr_supported_color_modes

\* C13: for every entity resolution can produce and every intent,
\* async_turn_on and async_turn_off end without raising, and every write
\* they issue targets a property recorded at resolution, never an absent one.
C13_NoRaiseNoAbsentTarget ==
    /\ pc # "raised"
    /\ \A i \in 1..Len(writes) : writes[i].prop # NoProp

(***************************************************************************)
(* The brightness round trip: the brightness getter on a raw device value, *)
(* then the brightness step of async_turn_on on what the getter returned.  *)
(***************************************************************************)
\* Scales of every size up to MaxScaleStates, and two finer ones.
WideScaleStates == {511, 1000}
BrightnessScales ==
    { <<lo, lo + n - 1>> : lo \in 0..MaxScaleMin, n \in (1..MaxScaleStates) \cup WideScaleStates }
BrightnessProp(scale) == Prop("brightness", "int", scale, <<>>)

InitBrightness ==
    /\ NoOverlap
    /\ \E scale \in BrightnessScales :
           /\ props = <<BrightnessProp(scale)>>
           /\ self = Construct(props)
           /\ \E raw \in scale[1]..scale[2] : tr = [pc |-> "device", raw |-> raw, norm |-> <<>>, dev |-> <<>>]
    /\ idx = 2
    /\ log = <<>>
    /\ NoCall

\* Light.brightness on the device value tr.raw
ReadBrightness ==
    /\ tr.pc = "device"
    /\ tr' = [tr EXCEPT !.pc = "read",
                        !.norm = <<ValueToBrightness(self.brightness_scale, tr.raw)>>]
    /\ UNCHANGED <<props, idx, log, self, pc, call, kwargs, writes, result, mode_before, tasks, device>>

\* The value async_turn_on(brightness=tr.norm) hands to set_property_async
WriteBrightness ==
    /\ tr.pc = "read"
    /\ tr' = [tr EXCEPT !.pc = "written",
                        !.dev = <<BrightnessToValue(self.brightness_scale, tr.norm[1])>>]
    /\ UNCHANGED <<props, idx, log, self, pc, call, kwargs, writes, result, mode_before, tasks, device>>

NextBrightness == ReadBrightness \/ WriteBrightness

SpecBrightness == InitBrightness /\ [][NextBrightness]_vars

Abs(x) == IF x < 0 THEN 0 - x ELSE x

\* |value - raw| <= 1 for the fraction value
WithinOne(value, raw) == Abs(value.v - raw * value.den) <= value.den

Channels ==
    (0..MaxEdgeChannel) \cup ((255 - MaxEdgeChannel)..255)
        \cup ((128 - MaxEdgeChannel)..(127 + MaxEdgeChannel))
Triples == Channels \X Channels \X Channels
\* Device values in [0, 2^24), by their three bytes.
RawColors == { t[1] * 65536 + t[2] * 256 + t[3] : t \in Triples }

InitRGB ==
    /\ NoOverlap
    /\ props = <<Color>>
    /\ self = Construct(props)
    /\ idx = 2
    /\ log = <<>>
    /\ NoCall
    /\ \/ \E t \in Triples :
              tr = [pc |-> "kwargs", origin |-> "kwargs", triple |-> t, raw |-> <<>>,
                    got |-> <<>>, back |-> <<>>]
       \/ \E n \in RawColors :
              tr = [pc |-> "device", origin |-> "device", triple |-> <<>>, raw |-> <<n>>,
                    got |-> <<>>, back |-> <<>>]

\* The rgb step of async_turn_on packs the intent's triple for the device.
WriteRgbFromKwargs ==
    /\ tr.pc = "kwargs"
    /\ tr' = [tr EXCEPT !.pc = "device", !.raw = <<PackRGB(tr.triple)>>]
    /\ UNCHANGED <<props, idx, log, self, pc, call, kwargs, writes, result, mode_before, tasks, device>>

\* Light.rgb_color on the device value.
ReadRgb ==
    /\ tr.pc = "device"
    /\ tr' = [tr EXCEPT !.pc = "read", !.got = UnpackRGB(tr.raw[1])]
    /\ UNCHANGED <<props, idx, log, self, pc, call, kwargs, writes, result, mode_before, tasks, device>>

\* The rgb step of async_turn_on on the triple the getter returned.
WriteRgbBack ==
    /\ tr.pc = "read" /\ tr.origin = "device"
    /\ tr' = [tr EXCEPT !.pc = "written", !.back = <<PackRGB(tr.got)>>]
    /\ UNCHANGED <<props, idx, log, self, pc, call, kwargs, writes, result, mode_before, tasks, device>>

NextRGB == WriteRgbFromKwargs \/ ReadRgb \/ WriteRgbBack

SpecRGB == InitRGB /\ [][NextRGB]_vars

\* C8: the integer the rgb step writes for (r,g,b), channels in [0,255], is
\* decomposed by the getter into exactly (r,g,b), and a raw value in
\* [0, 2^24) is reproduced by unpacking then packing.
C8_RgbRoundTrip ==
    /\ (tr.origin = "kwargs" /\ tr.pc = "read") => tr.got = tr.triple
    /\ (tr.origin = "device" /\ tr.pc = "written") => tr.back = tr.raw

\* A triple with three different non-zero channels came back from the device
\* value 255*65536 + 128*256 + 1.
C8_Witness ==
    /\ tr.origin = "kwargs" /\ tr.pc = "read"
    /\ tr.triple = <<255, 128, 1>>
    /\ tr.raw = <<16744449>>
    /\ tr.got = <<255, 128, 1>>

(***************************************************************************)
(* Overlapping calls. async_turn_on and async_turn_off are coroutines on   *)
(* one event loop and the entity holds no lock: while one call is          *)
(* suspended in `await self.set_property_async(...)` the other may start   *)
(* or resume. A coroutine runs without interruption from one await to the  *)
(* next, so a resumption and the issuing of the call's next write are one  *)
(* step.                                                                   *)
(***************************************************************************)
AttributeSteps == {"brightness", "color_temp", "rgb", "effect"}

\* The device after the write of `step` was issued.
DeviceAfter(dev, step) ==
    [ last_power |-> IF step \in {"on", "off"} THEN step ELSE dev.last_power,
      last_write |-> [step |-> step, power_before |-> dev.last_power] ]

\* The coroutine runs on to the statement `step`: it returns, or evaluating
\* the arguments of the step's set_property_async raises, or the write is
\* issued and the coroutine is suspended in its await.
RunTo(e, task, step, dev) ==
    IF step = "return" THEN [task |-> [task EXCEPT !.pc = "return", !.awaiting = FALSE], dev |-> dev]
    ELSE IF Raises(e, step)
    THEN [task |-> [task EXCEPT !.pc = "raised", !.awaiting = FALSE], dev |-> dev]
    ELSE [task |-> [task EXCEPT !.pc = step, !.awaiting = TRUE], dev |-> DeviceAfter(dev, step)]

InitOverlap ==
    /\ props = <<>>
    /\ idx = 1
    /\ log = <<>>
    /\ self \in { Construct(ps) : ps \in SeqsUpTo(Descriptors, MaxOverlapProps) }
    /\ NoCall
    /\ tr = TrIdle
    /\ NoOverlap

\* async_turn_on(**kw) starts and runs to its first await.
OverlapTurnOn(kw) ==
    /\ tasks["turn_on"].pc = "idle"
    /\ LET r == RunTo(self, [IdleTask EXCEPT !.kwargs = kw], "on", device)
       IN  /\ tasks' = [tasks EXCEPT !["turn_on"] = r.task]
           /\ device' = r.dev
    /\ UNCHANGED <<props, idx, log, self, pc, call, kwargs, writes, result, mode_before, tr>>

\* async_turn_off() starts and runs to its await.
OverlapTurnOff ==
    /\ tasks["turn_off"].pc = "idle"
    /\ LET r == RunTo(self, IdleTask, "off", device)
       IN  /\ tasks' = [tasks EXCEPT !["turn_off"] = r.task]
           /\ device' = r.dev
    /\ UNCHANGED <<props, idx, log, self, pc, call, kwargs, writes, result, mode_before, tr>>

\* The write call t awaits completes with outcome ok: t resumes, assigns
\* result (and the color mode) and runs to its next await or to its end.
OverlapResume(t, ok) ==
    /\ tasks[t].awaiting
    /\ LET task == tasks[t]
           next == IF task.pc = "off" THEN "return" ELSE NextStep(task.kwargs, task.pc)
           r == RunTo(self, [task EXCEPT !.result = ResultOf(task.result, ok)], next, device)
       IN  /\ tasks' = [tasks EXCEPT ![t] = r.task]
           /\ device' = r.dev
           /\ self' = [self EXCEPT !.attr_color_mode = ColorModeAfter(task.pc, ok, @)]
    /\ UNCHANGED <<props, idx, log, pc, call, kwargs, writes, result, mode_before, tr>>

\* Call t is over (returned or raised) and may be made again.
OverlapEnd(t) ==
    /\ tasks[t].pc \in {"return", "raised"}
    /\ tasks' = [tasks EXCEPT ![t] = IdleTask]
    /\ UNCHANGED <<props, idx, log, self, pc, call, kwargs, writes, result, mode_before, tr,
                   device>>

NextOverlap ==
    \/ \E kw \in Intents : OverlapTurnOn(kw)
    \/ OverlapTurnOff
    \/ \E t \in {"turn_on", "turn_off"}, ok \in BOOLEAN : OverlapResume(t, ok)
    \/ \E t \in {"turn_on", "turn_off"} : OverlapEnd(t)

SpecOverlap == InitOverlap /\ [][NextOverlap]_vars

\* C14: when async_turn_on and async_turn_off calls on one entity overlap,
\* no attribute write (brightness, color temperature, RGB, effect) is issued
\* while the most recently issued power write is a power-off.
C14_NoAttributeWriteWhileOff ==
    device.last_write.step \in AttributeSteps => device.last_write.power_before # "off"

\* What does hold of C14's statement: an attribute write is never issued
\* before any power write.
C14_PowerWrittenFirst ==
    device.last_write.step \in AttributeSteps => device.last_write.power_before # "none"

====
